---- MODULE Spec2Model ----
(***************************************************************************)
(* Sprint Coordinator: the document tools (canvas_tools.py,                 *)
(* sprint_tools.py) over the JSON data files, and the websocket relay       *)
(* (fastapi_app.py).                                                        *)
(*                                                                          *)
(* Spec           one caller of the tools, calls one after the other        *)
(* ConcSpec       two callers of the tools, file accesses interleaved       *)
(* RelaySpec      one websocket connection on /ws/chat                      *)
(* RelayConcSpec  two websocket connections served concurrently             *)
(* RelayLiveSpec  RelaySpec with the handler and the engine making progress *)
(* FaultSpec      one tool call on data files missing, cut short or a list  *)
(* SessionSpec    requests to /api/chat/init and the stored phase           *)
(* LifecycleSpec  sessions opened by /api/chat/init and by /ws/chat         *)
(***************************************************************************)
EXTENDS Integers, Sequences, FiniteSets, TLC

(***************************************************************************)
(* Bounds of the model                                                      *)
(***************************************************************************)
\* tool calls started in one behaviour
MaxCalls == 2
\* I/O failures (open, read, write, replace) injected in one behaviour
MaxFaults == 1
\* buffer-fulls in which one json.dump reaches the file (write syscalls)
NChunks == 2
\* client messages received over all connections in one behaviour
MaxMsgs == 2
\* events the engine yields over all turns in one behaviour
MaxEvents == 3
\* requests to /api/chat/init in one behaviour
MaxInits == 3

(***************************************************************************)
(* JSON values, one level deep: a mapping of keys to atoms, a list of      *)
(* atoms, a scalar, or no value.  Every value is a record of the same      *)
(* shape, the tag t saying which field counts.                             *)
(***************************************************************************)
Keys == {"k1", "k2"}
Atoms == {"x", "y"}
Absent == "_absent"
NoKeys == [k \in Keys |-> Absent]
JAbsent == [t |-> "absent", d |-> NoKeys, l |-> <<>>, s |-> Absent]
JDict(f) == [t |-> "dict", d |-> f, l |-> <<>>, s |-> Absent]
JList(q) == [t |-> "list", d |-> NoKeys, l |-> q, s |-> Absent]
JStr(a) == [t |-> "str", d |-> NoKeys, l |-> <<>>, s |-> a]

Sections == {"s1", "s2"}
\* the callers of the tools: threads or processes sharing the data directory
Callers == {1, 2}
Docs == {"bmc", "vpc", "sprints", "segments"}

\* a sprint item; the fields the tools read or write, and one they never touch
Item(id, st, who) == [item_id |-> id, status |-> st, notes |-> "", assignee |-> who, task |-> "t"]

\* an element of the customer_segments list: a mapping with its "id" member
\* (Absent for none) and its other members, or a value that is no mapping
SegmentIds == {"g1", "g2", "g9"}
Segment(id, f) == [t |-> "dict", id |-> id, d |-> f, l |-> <<>>, s |-> Absent]
\* JSON value v, a mapping with "id" member id if it is one, as such an element
AsSegment(v, id) == [t |-> v.t, id |-> IF v.t = "dict" THEN id ELSE Absent,
                     d |-> v.d, l |-> v.l, s |-> v.s]
NoSegment == AsSegment(JAbsent, Absent)

\* {} as _load_json_file returns it, {"sprints": [], "sprint_analysis": {}} as
\* _load_sprints_data does: a document with no section, sprint or segment
\* (shape: whether the JSON text is a mapping; top: which of the keys
\* "sprints", "sprint_analysis", "customer_segments" the mapping has)
EmptyDoc == [shape |-> "dict", top |-> {},
             sections |-> [s \in Sections |-> JAbsent], sprints |-> <<>>, segments |-> <<>>]
\* {"sprints": [], "sprint_analysis": {}}
EmptySprints == [EmptyDoc EXCEPT !.top = {"sprints", "sprint_analysis"}]
\* a JSON text that is a list, not a mapping: []
ListDoc == [EmptyDoc EXCEPT !.shape = "list"]

InitBmc == [shape |-> "dict", top |-> {}, sections |-> [s \in Sections |->
               IF s = "s1" THEN JDict([k \in Keys |-> "x"]) ELSE JAbsent],
            sprints |-> <<>>, segments |-> <<>>]
InitVpc == [shape |-> "dict", top |-> {}, sections |-> [s \in Sections |->
               IF s = "s1" THEN JList(<<"x">>) ELSE JStr("x")],
            sprints |-> <<>>, segments |-> <<>>]
InitSprints == [shape |-> "dict", top |-> {"sprints", "sprint_analysis"},
                sections |-> [s \in Sections |-> JAbsent],
                sprints |-> << [sprint_id |-> "sp1",
                                items |-> <<Item("i1", "pending", "u1"),
                                            Item("i2", "pending", "u2")>>],
                               [sprint_id |-> "sp2",
                                items |-> <<Item("i2", "pending", "u1")>>] >>,
                segments |-> <<>>]
\* two segments under different ids
InitSegments == [shape |-> "dict", top |-> {"customer_segments"},
                 sections |-> [s \in Sections |-> JAbsent], sprints |-> <<>>,
                 segments |-> << Segment("g1", [k \in Keys |-> "x"]),
                                 Segment("g2", [k \in Keys |-> "x"]) >>]
InitDoc(d) == IF d = "bmc" THEN InitBmc ELSE IF d = "vpc" THEN InitVpc
              ELSE IF d = "sprints" THEN InitSprints ELSE InitSegments

(***************************************************************************)
(* Files.  A file is the sequence of chunks written to it; json.dump of a  *)
(* document reaches the file in NChunks writes, chunk i of n of that       *)
(* document's text.  json.load accepts the chunks 1..n of one text and     *)
(* nothing else.                                                           *)
(***************************************************************************)
Hole == [src |-> EmptyDoc, i |-> 0, n |-> 0]
Dump(doc) == [j \in 1..NChunks |-> [src |-> doc, i |-> j, n |-> NChunks]]
WellFormed(bytes) ==
    /\ Len(bytes) > 0
    /\ \A j \in 1..Len(bytes) : bytes[j].i = j /\ bytes[j].n = Len(bytes)
    /\ \A j \in 1..Len(bytes) : bytes[j].src = bytes[1].src
Loads(bytes) == bytes[1].src
NoFile == [exists |-> FALSE, bytes |-> <<>>]
FileOf(doc) == [exists |-> TRUE, bytes |-> Dump(doc)]

DocPath(d) == <<d, "json">>
\* (mutant of TmpPath: one temporary file in the data directory for all
\* documents)
TmpPath_Shared(d) == <<"bmc", "tmp">>

\* file_path.with_suffix('.tmp')
TmpPath(d) == <<d, "tmp">>
Paths == Docs \X {"json", "tmp"}

\* _load_json_file / _load_sprints_data: every failure is logged and the
\* empty default returned
LoadJsonFile(file, readFails) ==
    IF ~file.exists \/ readFails \/ ~WellFormed(file.bytes)
    THEN EmptyDoc
    ELSE Loads(file.bytes)

\* (mutant of LoadSprintsData: the default of the canvas loader)
LoadSprintsData_Bare(file, readFails) == LoadJsonFile(file, readFails)

\* _load_sprints_data: the same with its own default
LoadSprintsData(file, readFails) ==
    IF ~file.exists \/ readFails \/ ~WellFormed(file.bytes)
    THEN EmptySprints
    ELSE Loads(file.bytes)

\* the loader the tools use for document d
Load(d, file, readFails) ==
    IF d = "sprints" THEN LoadSprintsData(file, readFails) ELSE LoadJsonFile(file, readFails)

\* a write of one chunk at the descriptor's offset
WriteAt(bytes, off, ch) ==
    LET padded == IF Len(bytes) < off
                  THEN bytes \o [j \in 1..(off - Len(bytes)) |-> Hole]
                  ELSE bytes
        len == IF Len(padded) > off + 1 THEN Len(padded) ELSE off + 1
    IN [j \in 1..len |-> IF j = off + 1 THEN ch ELSE padded[j]]

(***************************************************************************)
(* The tools' arguments                                                     *)
(***************************************************************************)
\* the updates argument: a JSON text, or a text json.loads rejects
JsonText(v) == [wf |-> TRUE, val |-> v]
Malformed == [wf |-> FALSE, val |-> JAbsent]
PatchTexts == { JsonText(JDict([k \in Keys |-> IF k = "k1" THEN "y" ELSE Absent])),
                JsonText(JList(<<"y">>)),
                JsonText(JStr("y")),
                Malformed }
ItemIds == {"i1", "i2", "i9"}
Statuses == {"completed", "design_completed", "bogus"}
Notes == {"", "n"}

\* the "id" member a mapping patch of a segment may carry
PatchIds == {Absent, "g2"}

NoCall == [op |-> "none", key |-> "", updates |-> Malformed, status |-> "", notes |-> "",
           pid |-> Absent]
CanvasCalls == { [op |-> o, key |-> s, updates |-> u, status |-> "", notes |-> "",
                  pid |-> Absent] :
                 o \in {"update_business_model_canvas", "update_value_proposition_canvas"},
                 s \in Sections, u \in PatchTexts }
SprintCalls == { [op |-> "update_sprint_item_status", key |-> i, updates |-> Malformed,
                  status |-> st, notes |-> n, pid |-> Absent] :
                 i \in ItemIds, st \in Statuses, n \in Notes }
SegmentCalls == { k \in [op : {"update_customer_segments"}, key : SegmentIds,
                         updates : PatchTexts, status : {""}, notes : {""}, pid : PatchIds] :
                  k.pid # Absent => (k.updates.wf /\ k.updates.val.t = "dict") }
\* the tools that read only; key is the item id or the user id
Assignees == {"u1", "u2", "u9"}
GetOps == {"get_business_model_canvas", "get_value_proposition_canvas",
           "get_customer_segments", "get_sprint_items"}
GetCalls == [op : GetOps, key : {""}, updates : {Malformed}, status : {""}, notes : {""},
             pid : {Absent}]
            \cup [op : {"get_sprint_item"}, key : ItemIds, updates : {Malformed},
                  status : {""}, notes : {""}, pid : {Absent}]
            \cup [op : {"get_user_sprint_items"}, key : Assignees, updates : {Malformed},
                  status : {""}, notes : {""}, pid : {Absent}]
\* GET /api/sprints/{item_id}; key is the item id
EndpointCalls == [op : {"get_sprint_item_by_id"}, key : ItemIds, updates : {Malformed},
                  status : {""}, notes : {""}, pid : {Absent}]
UpdateCalls == CanvasCalls \cup SprintCalls \cup SegmentCalls
Calls == UpdateCalls \cup GetCalls \cup EndpointCalls
\* the calls two concurrent callers make: patches of two sections of one
\* canvas, of another canvas, status updates of two sprint items, and a patch
\* of a segment
ConcCalls == { k \in CanvasCalls :
                 /\ k.updates.wf
                 /\ \/ k.op = "update_business_model_canvas" /\ k.updates.val.t = "dict"
                    \/ k.op = "update_value_proposition_canvas" /\ k.key = "s1"
                                                                /\ k.updates.val.t = "list" }
             \cup { k \in SprintCalls :
                      k.key \in {"i1", "i2"} /\ k.status = "completed" /\ k.notes = "" }
             \cup { k \in SegmentCalls :
                      k.key = "g1" /\ k.updates.wf /\ k.updates.val.t = "dict"
                                   /\ k.pid = Absent }

\* BMC_FILE, VPC_FILE, SEGMENTS_FILE, SPRINTS_FILE
DocOf(op) == IF op \in {"update_business_model_canvas", "get_business_model_canvas"}
             THEN "bmc"
             ELSE IF op \in {"update_value_proposition_canvas", "get_value_proposition_canvas"}
             THEN "vpc"
             ELSE IF op \in {"update_customer_segments", "get_customer_segments"}
             THEN "segments"
             ELSE "sprints"

(***************************************************************************)
(* The tools' results: the JSON payload a tool returns                      *)
(***************************************************************************)
\* (record: the "updates" member of update_customer_segments' success
\* payload; data: the document a get tool returns; item: the item
\* get_sprint_item returns; total: total_items of get_user_sprint_items;
\* http: the status of the HTTP response when an endpoint made the call, 0
\* when none did)
NoItem == [item_id |-> Absent, status |-> "", notes |-> "", assignee |-> "", task |-> ""]
NoRet == [success |-> FALSE, error |-> "none", record |-> NoSegment, data |-> EmptyDoc,
          item |-> NoItem, total |-> 0, http |-> 0]
Success == [NoRet EXCEPT !.success = TRUE, !.error = ""]
Error(e) == [NoRet EXCEPT !.error = e]
\* the success payload of the call k
SuccessPayload(k) ==
    IF k.op = "update_customer_segments"
    THEN [Success EXCEPT !.record = AsSegment(k.updates.val, k.pid)]
    ELSE Success

(***************************************************************************)
(* The outer try of every tool                                              *)
(***************************************************************************)
\* the exceptions a tool's body raises: data.get or segment.get on a value
\* that is no mapping, data[section] on a list
Exceptions == {"AttributeError", "TypeError"}

\* (mutant of ToolExcept: no outer try, the exception leaves the tool)
ToolExcept_Reraise(r) == r

\* except Exception: the exception becomes an error payload
ToolExcept(r) == IF r.err \in Exceptions THEN [r EXCEPT !.err = "Failed"] ELSE r

(***************************************************************************)
(* update_business_model_canvas / update_value_proposition_canvas:          *)
(* the section's new value                                                  *)
(***************************************************************************)
\* (mutant of MergeSection: a mapping is replaced, not merged)
MergeSection_Replace(old, p) == p

MergeSection(old, p) ==
    LET cur == IF old.t = "absent" THEN JDict(NoKeys) ELSE old
    IN  IF cur.t = "dict" /\ p.t = "dict"
        THEN JDict([k \in Keys |-> IF p.d[k] # Absent THEN p.d[k] ELSE cur.d[k]])
        ELSE IF cur.t = "list" /\ p.t = "list"
        THEN p
        ELSE p

\* (mutant of ApplyCanvasUpdate: updates that do not parse count as an empty
\* mapping)
ApplyCanvasUpdate_LenientParse(doc, section, updates) ==
    [err |-> "",
     doc |-> [doc EXCEPT !.sections[section] =
                MergeSection(@, IF updates.wf THEN updates.val ELSE JDict(NoKeys))]]

\* the part of the canvas tools between the load and the save
\* (err = "" when the tool goes on to save doc)
ApplyCanvasUpdate(doc, section, updates) ==
    IF ~updates.wf
    THEN [err |-> "Invalid JSON format in updates parameter", doc |-> doc]
    ELSE IF doc.shape # "dict"
    THEN [err |-> "TypeError", doc |-> doc]
    ELSE [err |-> "",
          doc |-> [doc EXCEPT !.sections[section] = MergeSection(@, updates.val)]]

(***************************************************************************)
(* update_sprint_item_status                                                *)
(***************************************************************************)
valid_statuses == {"pending", "in_progress", "completed"}

\* the places <<sprint, item>> of the items with this id
ItemPlaces(doc, id) ==
    UNION { { <<a, b>> : b \in { b \in 1..Len(doc.sprints[a].items) :
                                   doc.sprints[a].items[b].item_id = id } } :
            a \in 1..Len(doc.sprints) }
\* (mutant of FirstPlace: the loops go on to the last match)
FirstPlace_Last(places) ==
    CHOOSE p \in places : \A q \in places : q[1] < p[1] \/ (q[1] = p[1] /\ q[2] <= p[2])

\* the one the nested for loops reach first
FirstPlace(places) ==
    CHOOSE p \in places : \A q \in places : p[1] < q[1] \/ (p[1] = q[1] /\ p[2] <= q[2])

\* (mutant of ApplySprintItemStatus: the status is validated after the lookup)
ApplySprintItemStatus_LateValidation(doc, item_id, status, notes) ==
    IF ItemPlaces(doc, item_id) = {}
    THEN [err |-> "Sprint item not found", doc |-> doc]
    ELSE IF status \notin valid_statuses
    THEN [err |-> "Invalid status", doc |-> doc]
    ELSE LET p == FirstPlace(ItemPlaces(doc, item_id))
         IN [err |-> "",
             doc |-> [doc EXCEPT !.sprints[p[1]].items[p[2]] =
                        [@ EXCEPT !.status = status,
                                  !.notes = IF notes # "" THEN notes ELSE @]]]

\* (mutant of ApplySprintItemStatus: no return after the loops, the document
\* is saved whether or not an item was found)
ApplySprintItemStatus_SaveUnfound(doc, item_id, status, notes) ==
    IF status \notin valid_statuses
    THEN [err |-> "Invalid status", doc |-> doc]
    ELSE IF doc.shape # "dict"
    THEN [err |-> "AttributeError", doc |-> doc]
    ELSE IF ItemPlaces(doc, item_id) = {}
    THEN [err |-> "", doc |-> doc]
    ELSE LET p == FirstPlace(ItemPlaces(doc, item_id))
         IN [err |-> "",
             doc |-> [doc EXCEPT !.sprints[p[1]].items[p[2]] =
                        [@ EXCEPT !.status = status,
                                  !.notes = IF notes # "" THEN notes ELSE @]]]

\* the part of update_sprint_item_status between the load and the save
ApplySprintItemStatus(doc, item_id, status, notes) ==
    IF status \notin valid_statuses
    THEN [err |-> "Invalid status", doc |-> doc]
    ELSE IF doc.shape # "dict"
    THEN [err |-> "AttributeError", doc |-> doc]
    ELSE IF ItemPlaces(doc, item_id) = {}
    THEN [err |-> "Sprint item not found", doc |-> doc]
    ELSE LET p == FirstPlace(ItemPlaces(doc, item_id))
         IN [err |-> "",
             doc |-> [doc EXCEPT !.sprints[p[1]].items[p[2]] =
                        [@ EXCEPT !.status = status,
                                  !.notes = IF notes # "" THEN notes ELSE @]]]

(***************************************************************************)
(* update_customer_segments                                                 *)
(***************************************************************************)
\* segments[i].update(updates_dict): the patch's members set, the others kept
\* (mutant of MergeSegment: the element is replaced by the patch)
MergeSegment_Replace(seg, p, pid) == AsSegment(p, pid)

MergeSegment(seg, p, pid) ==
    IF p.t = "dict"
    THEN [seg EXCEPT !.id = IF pid # Absent THEN pid ELSE @,
                     !.d = [k \in Keys |-> IF p.d[k] # Absent THEN p.d[k] ELSE @[k]]]
    ELSE AsSegment(p, pid)

\* the index the for loop of lines 226-234 stops at: that of the first
\* mapping with this id; 0 when the loop runs to the end; -1 when it first
\* reaches an element that has no get method
SegmentIndex(segments, segment_id) ==
    LET hits == { j \in 1..Len(segments) :
                    segments[j].t = "dict" /\ segments[j].id = segment_id }
        bad == { j \in 1..Len(segments) : segments[j].t # "dict" }
        stops == hits \cup bad
    IN IF stops = {} THEN 0
       ELSE LET j == CHOOSE j \in stops : \A o \in stops : j <= o
            IN IF j \in hits THEN j ELSE -1

\* the part of update_customer_segments between the load and the save
ApplySegmentUpdate(doc, segment_id, updates, pid) ==
    IF ~updates.wf
    THEN [err |-> "Invalid JSON format in updates parameter", doc |-> doc]
    ELSE LET j == SegmentIndex(doc.segments, segment_id)
         IN IF doc.shape # "dict" \/ j = -1 THEN [err |-> "AttributeError", doc |-> doc]
            ELSE IF j = 0 THEN [err |-> "Customer segment not found", doc |-> doc]
            ELSE [err |-> "",
                  doc |-> [doc EXCEPT !.segments[j] = MergeSegment(@, updates.val, pid)]]

(***************************************************************************)
(* The tools that read: what they return for the document their load gave   *)
(***************************************************************************)
\* get_business_model_canvas, get_value_proposition_canvas,
\* get_customer_segments, get_sprint_items: json.dumps(data)
GetDocument(doc) == [err |-> "", doc |-> doc, ret |-> [Success EXCEPT !.data = doc]]

\* get_sprint_item: the first item with the id
GetSprintItem(doc, item_id) ==
    IF doc.shape # "dict"
    THEN [err |-> "AttributeError", doc |-> doc, ret |-> NoRet]
    ELSE IF ItemPlaces(doc, item_id) = {}
    THEN [err |-> "Sprint item not found", doc |-> doc, ret |-> NoRet]
    ELSE LET p == FirstPlace(ItemPlaces(doc, item_id))
         IN [err |-> "", doc |-> doc,
             ret |-> [Success EXCEPT !.item = doc.sprints[p[1]].items[p[2]]]]

\* (mutant of UserItems: the assignee is not compared)
UserItems_All(sprint, user_id) == sprint.items

\* the items of a sprint assigned to the user, in order
UserItems(sprint, user_id) == SelectSeq(sprint.items, LAMBDA it : it.assignee = user_id)
RECURSIVE SumItems(_)
SumItems(sprints) ==
    IF sprints = <<>> THEN 0 ELSE Len(Head(sprints).items) + SumItems(Tail(sprints))

\* get_user_sprint_items: the sprints that have items of the user, each with
\* those items only, and their number
GetUserSprintItems(doc, user_id) ==
    IF doc.shape # "dict"
    THEN [err |-> "AttributeError", doc |-> doc, ret |-> NoRet]
    ELSE LET infos == [a \in 1..Len(doc.sprints) |->
                         [sprint_id |-> doc.sprints[a].sprint_id,
                          items |-> UserItems(doc.sprints[a], user_id)]]
             user_items == SelectSeq(infos, LAMBDA info : info.items # <<>>)
         IN [err |-> "", doc |-> doc,
             ret |-> [Success EXCEPT
                        !.data = [EmptyDoc EXCEPT !.top = {"user_id", "sprints", "total_items"},
                                                  !.sprints = user_items],
                        !.total = SumItems(user_items)]]

(***************************************************************************)
(* GET /api/sprints/{item_id} (fastapi_app.py): the response made of the     *)
(* payload get_sprint_item returned                                          *)
(***************************************************************************)
\* lines 140-142, except Exception: whatever the try raised, the
\* HTTPException of line 138 included, becomes an HTTPException 500
EndpointExcept(r) == IF r.raised THEN [r EXCEPT !.http = 500] ELSE r

\* lines 136-139: a payload with an "error" member raises HTTPException 404,
\* any other is returned as it is
ItemResponse(payload) ==
    IF payload.error # ""
    THEN [raised |-> TRUE, http |-> 404, body |-> payload]
    ELSE [raised |-> FALSE, http |-> 200, body |-> payload]

(***************************************************************************)
(* The websocket relay (fastapi_app.py): connections, messages, events      *)
(***************************************************************************)
Conns == {1, 2}
\* the user id sessions are created under, and another one a client may send
DEFAULT_USER_ID == "user1234"
UserIds == {DEFAULT_USER_ID, "u2"}
SessionIds == {"s1", "s2"}
SprintItemIds == {"i1"}

\* what a client sends: a JSON object with the four fields, a JSON object
\* lacking the field "message", or a text json.loads rejects
Msgs == [kind : {"valid"}, user_id : UserIds, session_id : SessionIds,
         sprint_item_id : SprintItemIds]
        \cup [kind : {"missing"}, user_id : {DEFAULT_USER_ID}, session_id : {"s1"},
              sprint_item_id : {"i1"}]
        \cup [kind : {"unparsable"}, user_id : {""}, session_id : {""},
              sprint_item_id : {""}]
\* the messages of two clients served at once: well-formed, under the user id
\* the sessions are created with
ConcMsgs == { m \in Msgs : m.kind = "valid" /\ m.user_id = DEFAULT_USER_ID }

\* an engine event: its author, the text of its first part ("" for none), and
\* whether it is a partial chunk, a final response, or neither (a function
\* call or response)
Primary == "sprint_coordinator"
Authors == {Primary, "sub_agent"}
Texts == {"", "a", "b"}
Event(a, t, k) == [author |-> a, text |-> t, kind |-> k]
Events == { Event(Primary, "a", "partial"), Event(Primary, "b", "partial"),
            Event(Primary, "", "partial"),
            Event(Primary, "a", "final"), Event(Primary, "", "final"),
            Event(Primary, "", "call"), Event(Primary, "a", "call"),
            Event("sub_agent", "a", "partial"), Event("sub_agent", "a", "final") }
\* the events of two turns running at once: a tool call, a chunk, the final
\* response
ConcEvents == { Event(Primary, "", "call"), Event(Primary, "a", "partial"),
                Event(Primary, "a", "final") }

\* what the client is sent
Chunk(t) == [kind |-> "chunk", text |-> t]
Marker == [kind |-> "marker", text |-> "--streaming ended--"]
ErrorText(t) == [kind |-> "error", text |-> t]

\* (bad: the messages of the connection answered with an error text so far)
NoTurn == [user |-> "", session |-> "", item |-> "", state |-> "none", bad |-> 0]
\* (request: the session id and sprint item id of the request answered)
NoResp == [request |-> <<"", "">>, status |-> 0, session_id |-> "", sprint_item_id |-> "",
           phase |-> ""]
NoSession == [present |-> FALSE, sprint_item_id |-> "", current_sprint_item |-> "",
              current_phase |-> "", phase_summaries |-> <<>>]

(***************************************************************************)
(* State                                                                    *)
(***************************************************************************)
VARIABLES
    fs,        \* path -> file
    pc,        \* caller -> where it is in the tool ("off": not running)
    call,      \* caller -> the tool and arguments of its call
    data,      \* caller -> the tool's local variable data
    fd,        \* caller -> its open temporary file: where the inode is, the offset
    ret,       \* caller -> the payload its call returned
    before,    \* caller -> the document and temporary file when the call began
    io,        \* caller -> what the call's load returned, whether an I/O failed
    ncalls,    \* calls started
    nfaults    \* I/O failures injected

storeVars == <<fs, pc, call, data, fd, ret, before, io, ncalls, nfaults>>

VARIABLES
    hpc,              \* connection -> where websocket_chat is ("off": no connection)
    client,           \* connection -> "open", or "gone" once the client has disconnected
    turn,             \* connection -> the turn of its last valid message
    gen,              \* connection -> the events the engine has yielded in that turn
    out,              \* connection -> the texts delivered to the client since its last message
    late,             \* connection -> sends attempted after a receive or send had failed
    active_sessions,  \* session id -> the entry of the module's active_sessions dict
    sessions,         \* the (user id, session id) pairs the session service holds
    nmsgs,            \* messages received
    nevents,          \* events yielded
    resp,             \* the response to the last request to /api/chat/init
    ninits            \* requests to /api/chat/init answered

apiVars == <<resp, ninits>>
relayVars == <<hpc, client, turn, gen, out, late, active_sessions, sessions, nmsgs, nevents,
               apiVars>>

vars == <<storeVars, relayVars>>

\* the relay's state apart from the connections that are open
InitRelay ==
    /\ client = [c \in Conns |-> "open"]
    /\ turn = [c \in Conns |-> NoTurn]
    /\ gen = [c \in Conns |-> <<>>]
    /\ out = [c \in Conns |-> <<>>]
    /\ late = [c \in Conns |-> 0]
    /\ active_sessions = [s \in SessionIds |-> NoSession]
    /\ sessions = {}
    /\ nmsgs = 0
    /\ nevents = 0
    /\ resp = NoResp
    /\ ninits = 0

NoFd == [at |-> "closed", off |-> 0]
NoBefore == [doc |-> NoFile, tmp |-> NoFile]
NoIo == [loaded |-> EmptyDoc, failed |-> FALSE]

InitStore ==
    /\ hpc = [c \in Conns |-> "off"]
    /\ InitRelay
    /\ fs = [p \in Paths |-> IF p[2] = "json" THEN FileOf(InitDoc(p[1])) ELSE NoFile]
    /\ call = [c \in Callers |-> NoCall]
    /\ data = [c \in Callers |-> EmptyDoc]
    /\ fd = [c \in Callers |-> NoFd]
    /\ ret = [c \in Callers |-> NoRet]
    /\ before = [c \in Callers |-> NoBefore]
    /\ io = [c \in Callers |-> NoIo]
    /\ ncalls = 0
    /\ nfaults = 0

Init == pc = [c \in Callers |-> IF c = 1 THEN "idle" ELSE "off"] /\ InitStore
ConcInit == pc = [c \in Callers |-> "idle"] /\ InitStore

(***************************************************************************)
(* Actions: one per file access of a tool call                              *)
(***************************************************************************)
\* a caller invokes a tool with arguments k
StartCall(c, k) ==
    /\ pc[c] = "idle"
    /\ ncalls < MaxCalls
    /\ call' = [call EXCEPT ![c] = k]
    /\ before' = [before EXCEPT ![c] = [doc |-> fs[DocPath(DocOf(k.op))],
                                        tmp |-> fs[TmpPath(DocOf(k.op))]]]
    /\ pc' = [pc EXCEPT ![c] = "load"]
    /\ ret' = [ret EXCEPT ![c] = NoRet]
    /\ io' = [io EXCEPT ![c] = NoIo]
    /\ ncalls' = ncalls + 1
    /\ UNCHANGED <<fs, data, fd, nfaults>>
    /\ UNCHANGED relayVars

Call(c) == \E k \in Calls : StartCall(c, k)
ConcCall(c) == \E k \in ConcCalls : StartCall(c, k)

\* an I/O failure is injected into the call of c
Fault(c) ==
    /\ nfaults < MaxFaults
    /\ nfaults' = nfaults + 1
    /\ io' = [io EXCEPT ![c].failed = TRUE]

\* the tool returns early with an error payload, or goes on to save
Computed(c, r) ==
    /\ data' = [data EXCEPT ![c] = r.doc]
    /\ IF r.err = ""
       THEN pc' = [pc EXCEPT ![c] = "open"] /\ ret' = ret
       ELSE pc' = [pc EXCEPT ![c] = "done"] /\ ret' = [ret EXCEPT ![c] = Error(r.err)]
    /\ UNCHANGED <<fs, call, fd, before, ncalls>>
    /\ UNCHANGED relayVars

\* the tool's load: the read of the document file succeeds or fails
Loaded(c, doc, readFails) ==
    /\ readFails => nfaults < MaxFaults
    /\ nfaults' = IF readFails THEN nfaults + 1 ELSE nfaults
    /\ io' = [io EXCEPT ![c] = [loaded |-> doc, failed |-> readFails]]

\* canvas_tools.py: load, parse the updates, merge
UpdateCanvasLoad(c, op) ==
    /\ pc[c] = "load"
    /\ call[c].op = op
    /\ \E readFails \in BOOLEAN :
         LET doc == LoadJsonFile(fs[DocPath(DocOf(op))], readFails)
         IN /\ Loaded(c, doc, readFails)
            /\ Computed(c, ToolExcept(ApplyCanvasUpdate(doc, call[c].key, call[c].updates)))

update_business_model_canvas(c) == UpdateCanvasLoad(c, "update_business_model_canvas")
update_value_proposition_canvas(c) == UpdateCanvasLoad(c, "update_value_proposition_canvas")

\* sprint_tools.py: load, validate the status, find the item, set it
update_sprint_item_status(c) ==
    /\ pc[c] = "load"
    /\ call[c].op = "update_sprint_item_status"
    /\ \E readFails \in BOOLEAN :
         LET doc == LoadSprintsData(fs[DocPath("sprints")], readFails)
         IN /\ Loaded(c, doc, readFails)
            /\ Computed(c, ToolExcept(ApplySprintItemStatus(doc, call[c].key, call[c].status,
                                                            call[c].notes)))

\* canvas_tools.py: load, parse the updates, find the segment, merge
update_customer_segments(c) ==
    /\ pc[c] = "load"
    /\ call[c].op = "update_customer_segments"
    /\ \E readFails \in BOOLEAN :
         LET doc == LoadJsonFile(fs[DocPath("segments")], readFails)
         IN /\ Loaded(c, doc, readFails)
            /\ Computed(c, ToolExcept(ApplySegmentUpdate(doc, call[c].key, call[c].updates,
                                                         call[c].pid)))

\* a tool that reads returns: the payload, or the error its body ended with
Returned(c, r) ==
    /\ pc' = [pc EXCEPT ![c] = "done"]
    /\ ret' = [ret EXCEPT ![c] = IF r.err = "" THEN r.ret ELSE Error(r.err)]
    /\ UNCHANGED <<fs, call, data, fd, before, ncalls>>
    /\ UNCHANGED relayVars

\* get_business_model_canvas, get_value_proposition_canvas,
\* get_customer_segments (canvas_tools.py), get_sprint_items (sprint_tools.py)
GetTool(c, op) ==
    /\ pc[c] = "load"
    /\ call[c].op = op
    /\ \E readFails \in BOOLEAN :
         LET doc == Load(DocOf(op), fs[DocPath(DocOf(op))], readFails)
         IN /\ Loaded(c, doc, readFails)
            /\ Returned(c, ToolExcept(GetDocument(doc)))

get_business_model_canvas(c) == GetTool(c, "get_business_model_canvas")
get_value_proposition_canvas(c) == GetTool(c, "get_value_proposition_canvas")
get_customer_segments(c) == GetTool(c, "get_customer_segments")
get_sprint_items(c) == GetTool(c, "get_sprint_items")

get_sprint_item(c) ==
    /\ pc[c] = "load"
    /\ call[c].op = "get_sprint_item"
    /\ \E readFails \in BOOLEAN :
         LET doc == LoadSprintsData(fs[DocPath("sprints")], readFails)
         IN /\ Loaded(c, doc, readFails)
            /\ Returned(c, ToolExcept(GetSprintItem(doc, call[c].key)))

get_user_sprint_items(c) ==
    /\ pc[c] = "load"
    /\ call[c].op = "get_user_sprint_items"
    /\ \E readFails \in BOOLEAN :
         LET doc == LoadSprintsData(fs[DocPath("sprints")], readFails)
         IN /\ Loaded(c, doc, readFails)
            /\ Returned(c, ToolExcept(GetUserSprintItems(doc, call[c].key)))

\* fastapi_app.py: get_sprint_item is called and its payload answered
get_sprint_item_by_id(c) ==
    /\ pc[c] = "load"
    /\ call[c].op = "get_sprint_item_by_id"
    /\ \E readFails \in BOOLEAN :
         LET doc == LoadSprintsData(fs[DocPath("sprints")], readFails)
             r == ToolExcept(GetSprintItem(doc, call[c].key))
             payload == IF r.err = "" THEN r.ret ELSE Error(r.err)
             answer == EndpointExcept(ItemResponse(payload))
         IN /\ Loaded(c, doc, readFails)
            /\ Returned(c, [err |-> "", doc |-> doc,
                            ret |-> [answer.body EXCEPT !.http = answer.http]])

\* _save_json_file returned False: the tool returns its save error
SaveFailed(c) ==
    /\ pc' = [pc EXCEPT ![c] = "done"]
    /\ ret' = [ret EXCEPT ![c] = Error("Failed to save")]
    /\ fd' = [fd EXCEPT ![c] = NoFd]

\* open(temp_file, 'w'): the temporary file is created, or truncated if there
SaveOpen(c) ==
    /\ pc[c] = "open"
    /\ \/ /\ fs' = [fs EXCEPT ![TmpPath(DocOf(call[c].op))] = [exists |-> TRUE, bytes |-> <<>>]]
          /\ fd' = [fd EXCEPT ![c] = [at |-> "tmp", off |-> 0]]
          /\ pc' = [pc EXCEPT ![c] = "write"]
          /\ UNCHANGED <<ret, io, nfaults>>
       \/ /\ Fault(c)
          /\ SaveFailed(c)
          /\ UNCHANGED fs
    /\ UNCHANGED <<call, data, before, ncalls>>
    /\ UNCHANGED relayVars

\* the path the descriptor's inode is linked at
FdPath(c) == IF fd[c].at = "tmp" THEN TmpPath(DocOf(call[c].op)) ELSE DocPath(DocOf(call[c].op))

\* json.dump: one buffer-full reaches the descriptor's inode
SaveWrite(c) ==
    /\ pc[c] = "write"
    /\ \/ /\ fs' = IF fd[c].at = "unlinked"
                   THEN fs
                   ELSE [fs EXCEPT ![FdPath(c)].bytes =
                           WriteAt(@, fd[c].off, Dump(data[c])[fd[c].off + 1])]
          /\ IF fd[c].off + 1 = NChunks
             THEN fd' = [fd EXCEPT ![c] = NoFd] /\ pc' = [pc EXCEPT ![c] = "replace"]
             ELSE fd' = [fd EXCEPT ![c].off = @ + 1] /\ pc' = pc
          /\ UNCHANGED <<ret, io, nfaults>>
       \/ /\ Fault(c)
          /\ SaveFailed(c)
          /\ UNCHANGED fs
    /\ UNCHANGED <<call, data, before, ncalls>>
    /\ UNCHANGED relayVars

\* temp_file.replace(file_path): the document path now names the temporary
\* file's inode; a descriptor open on it follows it, one open on the old
\* document inode is left with an unlinked file
SaveReplace(c) ==
    /\ pc[c] = "replace"
    /\ LET d == DocOf(call[c].op)
       IN \/ /\ fs[TmpPath(d)].exists
             /\ fs' = [fs EXCEPT ![DocPath(d)] = fs[TmpPath(d)], ![TmpPath(d)] = NoFile]
             /\ fd' = [o \in Callers |->
                         IF o # c /\ pc[o] = "write" /\ DocOf(call[o].op) = d
                         THEN [fd[o] EXCEPT !.at = IF @ = "tmp" THEN "doc" ELSE "unlinked"]
                         ELSE fd[o]]
             /\ pc' = [pc EXCEPT ![c] = "done"]
             /\ ret' = [ret EXCEPT ![c] = SuccessPayload(call[c])]
             /\ UNCHANGED <<io, nfaults>>
          \/ /\ ~fs[TmpPath(d)].exists
             /\ SaveFailed(c)
             /\ UNCHANGED <<fs, io, nfaults>>
          \/ /\ fs[TmpPath(d)].exists
             /\ Fault(c)
             /\ SaveFailed(c)
             /\ UNCHANGED fs
    /\ UNCHANGED <<call, data, before, ncalls>>
    /\ UNCHANGED relayVars

\* the caller has the payload and is free to call again
Return(c) ==
    /\ pc[c] = "done"
    /\ pc' = [pc EXCEPT ![c] = "idle"]
    /\ call' = [call EXCEPT ![c] = NoCall]
    /\ data' = [data EXCEPT ![c] = EmptyDoc]
    /\ ret' = [ret EXCEPT ![c] = NoRet]
    /\ before' = [before EXCEPT ![c] = NoBefore]
    /\ io' = [io EXCEPT ![c] = NoIo]
    /\ UNCHANGED <<fs, fd, ncalls, nfaults>>
    /\ UNCHANGED relayVars

Next ==
    \/ \E c \in Callers : Call(c)
    \/ \E c \in Callers : update_business_model_canvas(c)
    \/ \E c \in Callers : update_value_proposition_canvas(c)
    \/ \E c \in Callers : update_sprint_item_status(c)
    \/ \E c \in Callers : update_customer_segments(c)
    \/ \E c \in Callers : get_business_model_canvas(c)
    \/ \E c \in Callers : get_value_proposition_canvas(c)
    \/ \E c \in Callers : get_customer_segments(c)
    \/ \E c \in Callers : get_sprint_items(c)
    \/ \E c \in Callers : get_sprint_item(c)
    \/ \E c \in Callers : get_user_sprint_items(c)
    \/ \E c \in Callers : get_sprint_item_by_id(c)
    \/ \E c \in Callers : SaveOpen(c)
    \/ \E c \in Callers : SaveWrite(c)
    \/ \E c \in Callers : SaveReplace(c)
    \/ \E c \in Callers : Return(c)

ConcNext ==
    \/ \E c \in Callers : ConcCall(c)
    \/ \E c \in Callers : update_business_model_canvas(c)
    \/ \E c \in Callers : update_value_proposition_canvas(c)
    \/ \E c \in Callers : update_sprint_item_status(c)
    \/ \E c \in Callers : update_customer_segments(c)
    \/ \E c \in Callers : SaveOpen(c)
    \/ \E c \in Callers : SaveWrite(c)
    \/ \E c \in Callers : SaveReplace(c)
    \/ \E c \in Callers : Return(c)

Spec == Init /\ [][Next]_vars
ConcSpec == ConcInit /\ [][ConcNext]_vars

\* the states a document file is found in: as written by the tools, missing,
\* cut short, or holding a JSON text that is no mapping
FileStates(d) == { FileOf(InitDoc(d)), NoFile,
                   [exists |-> TRUE, bytes |-> SubSeq(Dump(InitDoc(d)), 1, 1)],
                   FileOf(ListDoc) }

\* one tool call on data files of which at most one is not as written
FaultInit ==
    /\ pc = [c \in Callers |-> IF c = 1 THEN "idle" ELSE "off"]
    /\ hpc = [c \in Conns |-> "off"]
    /\ InitRelay
    /\ \E d \in Docs : \E f \in FileStates(d) :
         fs = [p \in Paths |-> IF p[2] = "tmp" THEN NoFile
                               ELSE IF p[1] = d THEN f ELSE FileOf(InitDoc(p[1]))]
    /\ call = [c \in Callers |-> NoCall]
    /\ data = [c \in Callers |-> EmptyDoc]
    /\ fd = [c \in Callers |-> NoFd]
    /\ ret = [c \in Callers |-> NoRet]
    /\ before = [c \in Callers |-> NoBefore]
    /\ io = [c \in Callers |-> NoIo]
    /\ ncalls = 0
    /\ nfaults = 0

FaultNext ==
    \/ \E c \in Callers : Call(c)
    \/ \E c \in Callers : update_business_model_canvas(c)
    \/ \E c \in Callers : update_value_proposition_canvas(c)
    \/ \E c \in Callers : update_sprint_item_status(c)
    \/ \E c \in Callers : update_customer_segments(c)
    \/ \E c \in Callers : get_business_model_canvas(c)
    \/ \E c \in Callers : get_value_proposition_canvas(c)
    \/ \E c \in Callers : get_customer_segments(c)
    \/ \E c \in Callers : get_sprint_items(c)
    \/ \E c \in Callers : get_sprint_item(c)
    \/ \E c \in Callers : get_user_sprint_items(c)
    \/ \E c \in Callers : get_sprint_item_by_id(c)
    \/ \E c \in Callers : SaveOpen(c)
    \/ \E c \in Callers : SaveWrite(c)
    \/ \E c \in Callers : SaveReplace(c)

FaultSpec == FaultInit /\ [][FaultNext]_vars

(***************************************************************************)
(* Actions of the relay: websocket_chat and                                 *)
(* stream_agent_response_websocket, one action per await that can suspend   *)
(***************************************************************************)
\* (mutant of initialize_session: the session state is left as created)
initialize_session_NoState(session_id, sprint_item_id) ==
    /\ sessions' = sessions \cup {<<DEFAULT_USER_ID, session_id>>}
    /\ active_sessions' = [active_sessions EXCEPT ![session_id] =
           [NoSession EXCEPT !.present = TRUE, !.sprint_item_id = sprint_item_id]]

\* initialize_session: the session is created under DEFAULT_USER_ID and the
\* entry stored in active_sessions
initialize_session(session_id, sprint_item_id) ==
    /\ sessions' = sessions \cup {<<DEFAULT_USER_ID, session_id>>}
    /\ active_sessions' = [active_sessions EXCEPT ![session_id] =
           [present |-> TRUE, sprint_item_id |-> sprint_item_id,
            current_sprint_item |-> sprint_item_id, current_phase |-> "design",
            phase_summaries |-> <<>>]]

\* the count n of messages that do not parse or lack a field, after m
Unusable(n, m) == IF m.kind = "valid" THEN n ELSE n + 1

\* (mutant of Rejection: the required fields are not looked for)
Rejection_ParseOnly(m) ==
    IF m.kind = "unparsable" THEN "Error parsing message. Please try again." ELSE ""

\* lines 305-323: the error text a message is answered with, "" for a
\* message that parses and has the four fields
Rejection(m) ==
    IF m.kind = "unparsable" THEN "Error parsing message. Please try again."
    ELSE IF m.kind = "missing" THEN "Missing required fields. Please try again."
    ELSE ""

\* websocket_chat, one pass of the loop: message m is received, answered with
\* an error text if it cannot be used, and otherwise starts a turn
Receive(c, m) ==
    /\ hpc[c] = "recv"
    /\ client[c] = "open"
    /\ nmsgs < MaxMsgs
    /\ nmsgs' = nmsgs + 1
    /\ gen' = [gen EXCEPT ![c] = <<>>]
    /\ IF Rejection(m) # ""
        THEN /\ out' = [out EXCEPT ![c] = <<ErrorText(Rejection(m))>>]
             /\ turn' = [turn EXCEPT ![c] = [NoTurn EXCEPT !.bad = Unusable(turn[c].bad, m)]]
             /\ UNCHANGED <<hpc, active_sessions, sessions>>
        ELSE /\ IF ~active_sessions[m.session_id].present
                THEN initialize_session(m.session_id, m.sprint_item_id)
                ELSE UNCHANGED <<active_sessions, sessions>>
             /\ out' = [out EXCEPT ![c] = <<>>]
             /\ turn' = [turn EXCEPT ![c] = [user |-> m.user_id, session |-> m.session_id,
                                             item |-> m.sprint_item_id, state |-> "running",
                                             bad |-> Unusable(turn[c].bad, m)]]
             /\ hpc' = [hpc EXCEPT ![c] = "turn"]
    /\ UNCHANGED <<client, late, nevents>>
    /\ UNCHANGED <<storeVars, apiVars>>

WsReceive(c) == \E m \in Msgs : Receive(c, m)
ConcWsReceive(c) == \E m \in ConcMsgs : Receive(c, m)

\* (mutant of IsPrimaryText: the author of the event is not looked at)
IsPrimaryText_AnyAuthor(ev) == ev.text # ""

\* lines 244-248: the event is the primary responder's and its first part has text
IsPrimaryText(ev) == ev.author = Primary /\ ev.text # ""

\* an exception leaves stream_agent_response_websocket or the receive block
\* with the transport closed, n sends having been attempted on it since the
\* failure was seen: websocket_chat logs a WebSocketDisconnect, answers any
\* other exception with one more send (whose failure it swallows), and its
\* finally clause closes the websocket, which may raise out of the handler
HandlerAbort(c, n) ==
    \E exc \in {"WebSocketDisconnect", "Exception"}, closeRaises \in BOOLEAN :
        /\ late' = [late EXCEPT ![c] = IF exc = "Exception" THEN n + 1 ELSE n]
        /\ hpc' = [hpc EXCEPT ![c] = IF closeRaises THEN "crashed" ELSE "closed"]

\* stream_agent_response_websocket returns normally
TurnEnds(c) ==
    /\ turn' = [turn EXCEPT ![c].state = "ended"]
    /\ hpc' = [hpc EXCEPT ![c] = "recv"]
    /\ late' = late

\* a send in the loop (line 255 or 259) fails: the except clause of line 266
\* sends its own text, which fails too and leaves the function
SendFails(c) ==
    /\ turn' = [turn EXCEPT ![c].state = "aborted"]
    /\ HandlerAbort(c, 1)
    /\ out' = out

\* the runner finds the session of the turn
SessionFound(c) == <<turn[c].user, turn[c].session>> \in sessions

\* the engine yields its next event ev and the loop body handles it
Yield(c, ev) ==
    /\ hpc[c] = "turn"
    /\ SessionFound(c)
    /\ nevents < MaxEvents
    /\ nevents' = nevents + 1
    /\ gen' = [gen EXCEPT ![c] = Append(@, ev)]
    /\ IF IsPrimaryText(ev) /\ ev.kind = "partial"
       THEN IF client[c] = "open"
            THEN /\ out' = [out EXCEPT ![c] = Append(@, Chunk(ev.text))]
                 /\ UNCHANGED <<hpc, turn, late>>
            ELSE SendFails(c)
       ELSE IF IsPrimaryText(ev) /\ ev.kind = "final"
       THEN IF client[c] = "open"
            THEN /\ out' = [out EXCEPT ![c] = Append(@, Marker)]
                 /\ TurnEnds(c)
            ELSE SendFails(c)
       ELSE UNCHANGED <<hpc, turn, late, out>>
    /\ UNCHANGED <<client, active_sessions, sessions, nmsgs>>
    /\ UNCHANGED <<storeVars, apiVars>>

EngineYield(c) == \E ev \in Events : Yield(c, ev)
ConcEngineYield(c) == \E ev \in ConcEvents : Yield(c, ev)

\* the engine's event stream ends: the loop is left without a break
EngineEnd(c) ==
    /\ hpc[c] = "turn"
    /\ SessionFound(c)
    /\ TurnEnds(c)
    /\ UNCHANGED <<client, gen, out, active_sessions, sessions, nmsgs, nevents>>
    /\ UNCHANGED <<storeVars, apiVars>>

\* the runner raises (no session for this user id and session id, or the
\* model call fails): the except clause of line 266 sends the error text
EngineRaise(c) ==
    /\ hpc[c] = "turn"
    /\ IF client[c] = "open"
       THEN /\ out' = [out EXCEPT ![c] = Append(@, ErrorText("Something went wrong. Please try again."))]
            /\ TurnEnds(c)
       ELSE /\ turn' = [turn EXCEPT ![c].state = "aborted"]
            /\ HandlerAbort(c, 0)
            /\ out' = out
    /\ UNCHANGED <<client, gen, active_sessions, sessions, nmsgs, nevents>>
    /\ UNCHANGED <<storeVars, apiVars>>

\* the client goes away
ClientDisconnect(c) ==
    /\ hpc[c] \in {"recv", "turn"}
    /\ client[c] = "open"
    /\ client' = [client EXCEPT ![c] = "gone"]
    /\ UNCHANGED <<hpc, turn, gen, out, late, active_sessions, sessions, nmsgs, nevents>>
    /\ UNCHANGED <<storeVars, apiVars>>

\* (mutant of RecvDisconnected: the send of line 322 is a no-op on the closed
\* transport, and continue takes the loop back to receive_text)
RecvDisconnected_Continue(c) ==
    /\ hpc[c] = "recv"
    /\ client[c] = "gone"
    /\ late' = [late EXCEPT ![c] = 1]
    /\ UNCHANGED <<hpc, client, turn, gen, out, active_sessions, sessions, nmsgs, nevents>>
    /\ UNCHANGED <<storeVars, apiVars>>

\* receive_text raises WebSocketDisconnect inside the inner try: its except
\* clause (line 320) sends the parse error text, which fails
RecvDisconnected(c) ==
    /\ hpc[c] = "recv"
    /\ client[c] = "gone"
    /\ HandlerAbort(c, 1)
    /\ UNCHANGED <<client, turn, gen, out, active_sessions, sessions, nmsgs, nevents>>
    /\ UNCHANGED <<storeVars, apiVars>>

RelayNext ==
    \/ \E c \in Conns : WsReceive(c)
    \/ \E c \in Conns : EngineYield(c)
    \/ \E c \in Conns : EngineEnd(c)
    \/ \E c \in Conns : EngineRaise(c)
    \/ \E c \in Conns : ClientDisconnect(c)
    \/ \E c \in Conns : RecvDisconnected(c)

\* no tool is being called
StoreOff ==
    /\ fs = [p \in Paths |-> IF p[2] = "json" THEN FileOf(InitDoc(p[1])) ELSE NoFile]
    /\ pc = [c \in Callers |-> "off"]
    /\ call = [c \in Callers |-> NoCall]
    /\ data = [c \in Callers |-> EmptyDoc]
    /\ fd = [c \in Callers |-> NoFd]
    /\ ret = [c \in Callers |-> NoRet]
    /\ before = [c \in Callers |-> NoBefore]
    /\ io = [c \in Callers |-> NoIo]
    /\ ncalls = 0
    /\ nfaults = 0

RelayInit == StoreOff /\ InitRelay /\ hpc = [c \in Conns |-> IF c = 1 THEN "recv" ELSE "off"]
RelayConcInit == StoreOff /\ InitRelay /\ hpc = [c \in Conns |-> "recv"]

RelayConcNext ==
    \/ \E c \in Conns : ConcWsReceive(c)
    \/ \E c \in Conns : ConcEngineYield(c)
    \/ \E c \in Conns : EngineEnd(c)
    \/ \E c \in Conns : EngineRaise(c)
    \/ \E c \in Conns : ClientDisconnect(c)
    \/ \E c \in Conns : RecvDisconnected(c)

RelaySpec == RelayInit /\ [][RelayNext]_vars

\* the same with the event loop running the handler whenever it can go on
\* (a receive on a closed connection returns at once), and the engine's run
\* coming to an end or raising (max_llm_calls bounds it)
RelayLiveSpec ==
    /\ RelayInit
    /\ [][RelayNext]_vars
    /\ \A c \in Conns : WF_vars(RecvDisconnected(c))
    /\ \A c \in Conns : WF_vars(EngineEnd(c) \/ EngineRaise(c))
RelayConcSpec == RelayConcInit /\ [][RelayConcNext]_vars

(***************************************************************************)
(* Sessions: POST /api/chat/init and the workflow phase kept in the         *)
(* session state                                                            *)
(***************************************************************************)
Phases == {"design", "execute", "report", "learn", "completed"}
\* the sprint items a session is opened for
InitItemIds == {"i1", "i2"}

\* session_service.create_session for an id the service already holds:
\* whether the service raises AlreadyExistsError or replaces the session
\* depends on the release of the session library
CreateOutcomes(session_id) ==
    IF <<DEFAULT_USER_ID, session_id>> \in sessions THEN {"created", "raised"} ELSE {"created"}

\* init_chat: initialize_session is called whether or not the session
\* exists; its HTTPException 500 is passed on as a 500
init_chat(session_id, sprint_item_id) ==
    /\ ninits < MaxInits
    /\ ninits' = ninits + 1
    /\ \E outcome \in CreateOutcomes(session_id) :
         IF outcome = "created"
         THEN /\ initialize_session(session_id, sprint_item_id)
              /\ resp' = [request |-> <<session_id, sprint_item_id>>, status |-> 200,
                          session_id |-> session_id, sprint_item_id |-> sprint_item_id,
                          phase |-> "design"]
         ELSE /\ resp' = [NoResp EXCEPT !.request = <<session_id, sprint_item_id>>,
                                        !.status = 500]
              /\ UNCHANGED <<active_sessions, sessions>>
    /\ UNCHANGED <<hpc, client, turn, gen, out, late, nmsgs, nevents>>
    /\ UNCHANGED storeVars

\* the coordinator keeps current_phase in the session state as its
\* instruction tells it to: session.state is a plain mapping, the value is
\* stored as given
StoreCurrentPhase(session_id) ==
    /\ active_sessions[session_id].present
    /\ \E p \in Phases :
         active_sessions' = [active_sessions EXCEPT ![session_id].current_phase = p]
    /\ UNCHANGED <<hpc, client, turn, gen, out, late, sessions, nmsgs, nevents, apiVars>>
    /\ UNCHANGED storeVars

SessionInit == StoreOff /\ InitRelay /\ hpc = [c \in Conns |-> "off"]

SessionNext ==
    \/ \E session_id \in SessionIds : \E sprint_item_id \in InitItemIds :
          init_chat(session_id, sprint_item_id)
    \/ \E session_id \in SessionIds : StoreCurrentPhase(session_id)

SessionSpec == SessionInit /\ [][SessionNext]_vars

\* the two ways a session comes to be: a request to /api/chat/init and the
\* first message of a websocket client; turns end without text
LifecycleNext ==
    \/ \E session_id \in SessionIds : \E sprint_item_id \in InitItemIds :
          init_chat(session_id, sprint_item_id)
    \/ \E c \in Conns : WsReceive(c)
    \/ \E c \in Conns : EngineEnd(c)
    \/ \E c \in Conns : EngineRaise(c)

LifecycleSpec == RelayInit /\ [][LifecycleNext]_vars

(***************************************************************************)
(* Properties of the document tools                                         *)
(***************************************************************************)
CanvasOps == {"update_business_model_canvas", "update_value_proposition_canvas"}
\* the document a load without failure finds at the path of c's call
OnDisk(c) == LoadJsonFile(fs[DocPath(DocOf(call[c].op))], FALSE)
Finished(c) == pc[c] = "done"
Succeeded(c) == pc[c] = "done" /\ ret[c].success

\* value v of a section shows patch p
HoldsPatch(v, p) ==
    IF p.t = "dict"
    THEN v.t = "dict" /\ \A k \in Keys : p.d[k] # Absent => v.d[k] = p.d[k]
    ELSE v = p
\* the document on disk shows what the call of c set
PatchOnDisk(c) ==
    IF call[c].op \in CanvasOps
    THEN HoldsPatch(OnDisk(c).sections[call[c].key], call[c].updates.val)
    ELSE \E q \in ItemPlaces(OnDisk(c), call[c].key) :
            OnDisk(c).sprints[q[1]].items[q[2]].status = call[c].status

\* C1: once two concurrent update calls on the same document, each patching
\* a different section or sprint item, have both returned success, the
\* document contains both patches (no update is lost).
C1_NoLostUpdate ==
    \A c1, c2 \in Callers :
        ( /\ c1 # c2
          /\ Succeeded(c1) /\ Succeeded(c2)
          /\ DocOf(call[c1].op) = DocOf(call[c2].op)
          /\ call[c1].key # call[c2].key )
        => PatchOnDisk(c1) /\ PatchOnDisk(c2)

\* C2: in every reachable state, also while updates are in progress, the
\* file at each document path exists and holds one complete JSON text.
C2_NoTornDocument ==
    \A d \in Docs : fs[DocPath(d)].exists /\ WellFormed(fs[DocPath(d)].bytes)

\* C7: after a successful canvas section update, loading the document gives,
\* for the section, the merge by shape of the value the tool's load found
\* there (the stored one when the read worked) and the patch: both mappings,
\* the patch's keys win and the other keys keep their values; both lists,
\* the patch; any other combination, a missing section included, the patch.
C7_MergeByShape ==
    \A c \in Callers :
        (Succeeded(c) /\ call[c].op \in CanvasOps) =>
            LET old == io[c].loaded.sections[call[c].key]
                p == call[c].updates.val
                new == OnDisk(c).sections[call[c].key]
            IN /\ ~io[c].failed => io[c].loaded = LoadJsonFile(before[c].doc, FALSE)
               /\ (old.t = "dict" /\ p.t = "dict") =>
                     /\ new.t = "dict"
                     /\ \A k \in Keys :
                          new.d[k] = IF p.d[k] # Absent THEN p.d[k] ELSE old.d[k]
               /\ (old.t = "list" /\ p.t = "list") => new = p
               /\ (~(old.t = "dict" /\ p.t = "dict") /\ ~(old.t = "list" /\ p.t = "list"))
                     => new = p
\* a mapping patched by a mapping that leaves one of its keys alone
C7_Witness ==
    \E c \in Callers :
        /\ Succeeded(c) /\ call[c].op \in CanvasOps
        /\ io[c].loaded.sections[call[c].key].t = "dict"
        /\ call[c].updates.val.t = "dict"
        /\ \E k \in Keys : /\ call[c].updates.val.d[k] = Absent
                          /\ io[c].loaded.sections[call[c].key].d[k] # Absent

\* C8: an update call during which a read or a write of the backing file
\* failed returns an error, and the document file is then what it was
\* before the call.
C8_FailureLeavesDocument ==
    \A c \in Callers :
        (Finished(c) /\ io[c].failed) =>
            /\ ~ret[c].success
            /\ fs[DocPath(DocOf(call[c].op))] = before[c].doc

\* C9: update_sprint_item_status called with status 'design_completed' on
\* an existing item succeeds and the item's status is 'design_completed'.
C9_DesignCompletedAccepted ==
    \A c \in Callers :
        ( /\ Finished(c) /\ ~io[c].failed
          /\ call[c].op = "update_sprint_item_status"
          /\ call[c].status = "design_completed"
          /\ ItemPlaces(LoadJsonFile(before[c].doc, FALSE), call[c].key) # {} )
        => ret[c].success /\ PatchOnDisk(c)

\* the enumeration of statuses the specification names
StatusEnumeration == {"pending", "in_progress", "completed", "design_completed"}

\* C10: update_sprint_item_status with a status outside the enumeration
\* returns the validation error and writes nothing: the sprints file and its
\* temporary file are as they were before the call, whether the item exists
\* or not.
C10_InvalidStatusRejected ==
    \A c \in Callers :
        ( /\ Finished(c)
          /\ call[c].op = "update_sprint_item_status"
          /\ call[c].status \notin StatusEnumeration )
        => /\ ret[c] = Error("Invalid status")
           /\ fs[DocPath("sprints")] = before[c].doc
           /\ fs[TmpPath("sprints")] = before[c].tmp
C10_Witness ==
    \E c \in Callers :
        /\ Finished(c)
        /\ call[c].op = "update_sprint_item_status"
        /\ call[c].status = "bogus"
        /\ ItemPlaces(LoadJsonFile(before[c].doc, FALSE), call[c].key) = {}
        /\ ret[c] = Error("Invalid status")

\* the document the call of c found on disk when it began
DocBefore(c) == LoadJsonFile(before[c].doc, FALSE)
SprintCall(c) == call[c].op = "update_sprint_item_status"

\* C11: update_sprint_item_status with a valid status and an existing item
\* id succeeds (when no I/O fails) and sets the status of the first item with
\* that id, in sprint order then item order; its notes are overwritten only
\* by a non-empty notes argument; every other field of that item, every
\* other item and sprint, and the rest of the document are as before.
C11_FirstMatchOnly ==
    \A c \in Callers :
        ( /\ Finished(c) /\ ~io[c].failed /\ SprintCall(c)
          /\ call[c].status \in valid_statuses
          /\ ItemPlaces(DocBefore(c), call[c].key) # {} )
        => LET old == DocBefore(c)
               new == OnDisk(c)
               hits == ItemPlaces(old, call[c].key)
               IsFirst(a, b) == /\ <<a, b>> \in hits
                                /\ \A q \in hits : a < q[1] \/ (a = q[1] /\ b <= q[2])
           IN /\ ret[c].success
              /\ new.sections = old.sections
              /\ Len(new.sprints) = Len(old.sprints)
              /\ \A a \in 1..Len(old.sprints) :
                   /\ new.sprints[a].sprint_id = old.sprints[a].sprint_id
                   /\ Len(new.sprints[a].items) = Len(old.sprints[a].items)
                   /\ \A b \in 1..Len(old.sprints[a].items) :
                        LET o == old.sprints[a].items[b]
                            n == new.sprints[a].items[b]
                        IN IF IsFirst(a, b)
                           THEN /\ n.status = call[c].status
                                /\ n.notes = IF call[c].notes # "" THEN call[c].notes ELSE o.notes
                                /\ n.item_id = o.item_id
                                /\ n.assignee = o.assignee
                                /\ n.task = o.task
                           ELSE n = o
\* an item id held by two items, one of them with notes, updated with empty
\* notes
C11_Witness ==
    \E c \in Callers :
        /\ Succeeded(c) /\ SprintCall(c)
        /\ call[c].notes = ""
        /\ Cardinality(ItemPlaces(DocBefore(c), call[c].key)) = 2
        /\ \E q \in ItemPlaces(DocBefore(c), call[c].key) :
              DocBefore(c).sprints[q[1]].items[q[2]].notes # ""

SegmentCall(c) == call[c].op = "update_customer_segments"
\* the segments of a document that are mappings with this id
SegmentPlaces(doc, id) ==
    { j \in 1..Len(doc.segments) : doc.segments[j].t = "dict" /\ doc.segments[j].id = id }
\* the first of them
FirstSegment(doc, id) == CHOOSE j \in SegmentPlaces(doc, id) : \A o \in SegmentPlaces(doc, id) : j <= o

\* C12: after a successful update_customer_segments with a mapping patch,
\* the first segment whose id is the segment id holds the patch's members
\* with the patch's values and its other members with their old values, and
\* every other element of the list, and the list's length, are as before.
C12_MergeIntoFirstSegment ==
    \A c \in Callers :
        (Succeeded(c) /\ SegmentCall(c) /\ call[c].updates.val.t = "dict") =>
            LET old == DocBefore(c).segments
                new == OnDisk(c).segments
                p == call[c].updates.val
            IN /\ SegmentPlaces(DocBefore(c), call[c].key) # {}
               /\ Len(new) = Len(old)
               /\ \A j \in 1..Len(old) :
                    IF j = FirstSegment(DocBefore(c), call[c].key)
                    THEN /\ new[j].t = "dict"
                         /\ new[j].id = IF call[c].pid # Absent THEN call[c].pid ELSE old[j].id
                         /\ \A k \in Keys :
                              new[j].d[k] = IF p.d[k] # Absent THEN p.d[k] ELSE old[j].d[k]
                    ELSE new[j] = old[j]
\* two segments have the id, and the patch leaves a member of the first alone
C12_Witness ==
    \E c \in Callers :
        /\ Succeeded(c) /\ SegmentCall(c) /\ call[c].updates.val.t = "dict"
        /\ Cardinality(SegmentPlaces(DocBefore(c), call[c].key)) = 2
        /\ \E k \in Keys :
              /\ call[c].updates.val.d[k] = Absent
              /\ DocBefore(c).segments[FirstSegment(DocBefore(c), call[c].key)].d[k] # Absent

\* C13: update_customer_segments with a well-formed patch and a segment id
\* that no element of the segments list has returns the not-found error, and
\* the segments file and its temporary file are as before the call.
C13_UnknownSegmentNotFound ==
    \A c \in Callers :
        ( /\ Finished(c) /\ SegmentCall(c) /\ call[c].updates.wf
          /\ SegmentPlaces(DocBefore(c), call[c].key) = {} )
        => /\ ret[c] = Error("Customer segment not found")
           /\ fs[DocPath("segments")] = before[c].doc
           /\ fs[TmpPath("segments")] = before[c].tmp

\* C14: a successful update_customer_segments returns the full updated
\* segment: the record in its payload is the segment as it now is on disk,
\* patched members and all others.
C14_ReturnsUpdatedSegment ==
    \A c \in Callers :
        (Succeeded(c) /\ SegmentCall(c) /\ call[c].updates.val.t = "dict") =>
            ret[c].record = OnDisk(c).segments[FirstSegment(DocBefore(c), call[c].key)]

\* C15: the ids of the segments in the segments document are pairwise
\* distinct, after any calls of update_customer_segments on a document in
\* which they are.
C15_SegmentIdsUnique ==
    LET segs == LoadJsonFile(fs[DocPath("segments")], FALSE).segments
    IN \A i, j \in 1..Len(segs) :
         (i # j /\ segs[i].t = "dict" /\ segs[j].t = "dict" /\ segs[i].id # Absent)
            => segs[i].id # segs[j].id

\* C16: a canvas or segment update whose updates argument is not
\* well-formed JSON returns the invalid-JSON error and writes nothing: the
\* document file and its temporary file are as before the call.
C16_MalformedPatchRejected ==
    \A c \in Callers :
        ( /\ Finished(c)
          /\ call[c].op \in CanvasOps \cup {"update_customer_segments"}
          /\ ~call[c].updates.wf )
        => /\ ret[c] = Error("Invalid JSON format in updates parameter")
           /\ fs[DocPath(DocOf(call[c].op))] = before[c].doc
           /\ fs[TmpPath(DocOf(call[c].op))] = before[c].tmp
\* a malformed patch for a section the canvas does not have
C16_Witness ==
    \E c \in Callers :
        /\ Finished(c) /\ call[c].op \in CanvasOps /\ ~call[c].updates.wf
        /\ DocBefore(c).sections[call[c].key].t = "absent"
        /\ OnDisk(c).sections[call[c].key].t = "absent"

\* C19: every tool, for any arguments and any state of the data files
\* (missing, cut short, not a mapping, unreadable, unwritable), returns a
\* payload that is a success result or carries an error; no exception leaves
\* the tool.
C19_ToolsAlwaysReturnPayload ==
    \A c \in Callers :
        Finished(c) =>
            /\ ret[c].error \notin Exceptions
            /\ ret[c].error # "none"
            /\ ret[c].success <=> ret[c].error = ""
\* the body of a tool raised on a document that is no mapping
C19_Witness ==
    \E c \in Callers :
        /\ Finished(c) /\ ~io[c].failed
        /\ io[c].loaded.shape # "dict"
        /\ ret[c].error = "Failed"

Unloadable(file) == ~file.exists \/ ~WellFormed(file.bytes)

\* C20: the load of a document whose file is missing or holds no complete
\* JSON text returns the empty default, a mapping without sections, sprints
\* or segments: {} for the canvases and segments, and for sprints the mapping
\* with the keys 'sprints' and 'sprint_analysis'; the caller gets a payload.
C20_LoadDefaults ==
    \A c \in Callers :
        (pc[c] \in {"open", "write", "replace", "done"} /\ Unloadable(before[c].doc)) =>
            LET v == io[c].loaded
            IN /\ v.shape = "dict"
               /\ v.top = IF DocOf(call[c].op) = "sprints"
                          THEN {"sprints", "sprint_analysis"} ELSE {}
               /\ \A x \in Sections : v.sections[x].t = "absent"
               /\ v.sprints = <<>> /\ v.segments = <<>>
               /\ Finished(c) => ret[c].error \notin Exceptions
\* get_sprint_items has returned what it loaded from a sprints file that is
\* missing or cut short
C20_Witness ==
    \E c \in Callers :
        /\ Finished(c) /\ Unloadable(before[c].doc)
        /\ call[c].op = "get_sprint_items" /\ ret[c].success

\* C21: a tool call changes no file but the document file and the temporary
\* file of its own document: whenever the file at a document's path, or at
\* the path of its temporary file, changes, the step is one of a call on
\* that document, also while calls on other documents are in progress.
C21_OtherDocumentsUntouched ==
    [][ \A d \in Docs :
          (fs'[<<d, "json">>] # fs[<<d, "json">>] \/ fs'[<<d, "tmp">>] # fs[<<d, "tmp">>])
             => \E c \in Callers : /\ pc'[c] # pc[c] \/ fd'[c].off # fd[c].off
                                   /\ DocOf(call[c].op) = d ]_vars
\* two calls on different documents, in progress together, have both
\* succeeded and a third document is as it was
C21_Witness ==
    \E c1, c2 \in Callers :
        /\ Succeeded(c1) /\ Succeeded(c2)
        /\ DocOf(call[c1].op) # DocOf(call[c2].op)
        /\ PatchOnDisk(c1)
        /\ fs[DocPath(DocOf(call[c2].op))] # before[c2].doc
        /\ \E d \in Docs : /\ d \notin {DocOf(call[c1].op), DocOf(call[c2].op)}
                           /\ fs[DocPath(d)] = FileOf(InitDoc(d))

\* C25: update_sprint_item_status with a valid status and an item id that
\* no item of any sprint has returns the not-found error and writes nothing:
\* the sprints file and its temporary file are as they were before the call.
C25_UnknownItemNotFound ==
    \A c \in Callers :
        ( /\ Finished(c) /\ SprintCall(c)
          /\ call[c].status \in valid_statuses
          /\ ItemPlaces(DocBefore(c), call[c].key) = {} )
        => /\ ret[c] = Error("Sprint item not found")
           /\ fs[DocPath("sprints")] = before[c].doc
           /\ fs[TmpPath("sprints")] = before[c].tmp
\* the call came after one that had changed the document
C25_Witness ==
    \E c \in Callers :
        /\ Finished(c) /\ SprintCall(c)
        /\ call[c].status = "completed" /\ call[c].key = "i9"
        /\ DocBefore(c) # InitSprints
        /\ ret[c] = Error("Sprint item not found")

\* the number of elements of the set of numbers S that are at most x
Rank(S, x) == Cardinality({ y \in S : y <= x })

\* C26: get_user_sprint_items(user_id), when the read worked, returns the
\* sprints that have an item assigned to user_id, in document order, each
\* with exactly its items assigned to user_id, in document order; a sprint
\* without one is left out; total_items is the number of items returned;
\* the sprints file and its temporary file are as before the call.
C26_UserItemsExact ==
    \A c \in Callers :
        (Finished(c) /\ call[c].op = "get_user_sprint_items" /\ ~io[c].failed) =>
            LET doc == DocBefore(c)
                got == ret[c].data.sprints
                Mine(a) == { b \in 1..Len(doc.sprints[a].items) :
                               doc.sprints[a].items[b].assignee = call[c].key }
                With == { a \in 1..Len(doc.sprints) : Mine(a) # {} }
            IN /\ ret[c].success
               /\ Len(got) = Cardinality(With)
               /\ \A a \in With :
                    LET g == got[Rank(With, a)]
                    IN /\ g.sprint_id = doc.sprints[a].sprint_id
                       /\ Len(g.items) = Cardinality(Mine(a))
                       /\ \A b \in Mine(a) : g.items[Rank(Mine(a), b)] = doc.sprints[a].items[b]
               /\ ret[c].total = Cardinality(UNION { {<<a, b>> : b \in Mine(a)} : a \in With })
               /\ fs[DocPath("sprints")] = before[c].doc
               /\ fs[TmpPath("sprints")] = before[c].tmp
\* the user has one of the two items of the first sprint and none of the
\* second
C26_Witness ==
    \E c \in Callers :
        /\ Finished(c) /\ call[c].op = "get_user_sprint_items" /\ call[c].key = "u2"
        /\ Len(DocBefore(c).sprints) = 2
        /\ Len(ret[c].data.sprints) = 1
        /\ ret[c].total = 1

\* C30: after a successful update_customer_segments(segment_id, updates),
\* whatever well-formed JSON the updates are (a mapping with or without an
\* "id" member, a list, a string), the segments document has an element
\* whose id is segment_id, so that the next update of that id finds it.
C30_SegmentKeepsId ==
    \A c \in Callers :
        (Succeeded(c) /\ SegmentCall(c)) => SegmentPlaces(OnDisk(c), call[c].key) # {}

\* C22: GET /api/sprints/{item_id} with an id that no item has is answered
\* with status 404 and the not-found error of get_sprint_item, not with the
\* 500 of the other failures.
C22_UnknownItemIs404 ==
    \A c \in Callers :
        ( /\ Finished(c) /\ call[c].op = "get_sprint_item_by_id" /\ ~io[c].failed
          /\ ItemPlaces(DocBefore(c), call[c].key) = {} )
        => /\ ret[c].http = 404
           /\ ret[c].error = "Sprint item not found"

(***************************************************************************)
(* Properties of the sessions                                               *)
(***************************************************************************)
\* the phase that follows a phase in design, execute, report, learn,
\* completed
Successor(p) ==
    IF p = "design" THEN "execute"
    ELSE IF p = "execute" THEN "report"
    ELSE IF p = "report" THEN "learn"
    ELSE "completed"

FreshEntry(sprint_item_id) ==
    [present |-> TRUE, sprint_item_id |-> sprint_item_id,
     current_sprint_item |-> sprint_item_id, current_phase |-> "design",
     phase_summaries |-> <<>>]

\* C18: a request to /api/chat/init for a session that exists, with the
\* sprint item it was opened for, is answered like the first one (200,
\* phase design, the same ids) and leaves the session's entry as it was
\* after the first.
C18_InitIdempotent ==
    [][ \A s \in SessionIds :
          ( /\ ninits' = ninits + 1
            /\ active_sessions[s].present
            /\ resp'.request = <<s, active_sessions[s].sprint_item_id>> )
          => /\ resp'.status = 200
             /\ resp'.session_id = s
             /\ resp'.sprint_item_id = active_sessions[s].sprint_item_id
             /\ resp'.phase = "design"
             /\ active_sessions'[s] = FreshEntry(active_sessions[s].sprint_item_id) ]_vars

\* C24: whenever the entry of a session is made or made again, by a
\* request to /api/chat/init or by a websocket message for a session id not
\* yet known, it has current_phase design, no phase summaries and, as current
\* sprint item, the sprint item id of the request or message; the response
\* to the init request says phase design.
C24_SessionsStartInDesign ==
    [][ \A s \in SessionIds :
          active_sessions'[s] # active_sessions[s] =>
             \/ /\ ninits' = ninits + 1
                /\ resp'.request[1] = s
                /\ resp'.status = 200 /\ resp'.phase = "design"
                /\ active_sessions'[s] = FreshEntry(resp'.request[2])
             \/ /\ nmsgs' = nmsgs + 1
                /\ \E c \in Conns :
                      /\ turn'[c] # turn[c] /\ turn'[c].session = s
                      /\ active_sessions'[s] = FreshEntry(turn'[c].item) ]_vars
\* one session opened by an init request for item i2, another by a
\* websocket message
C24_Witness ==
    /\ resp.status = 200 /\ resp.request[2] = "i2"
    /\ active_sessions[resp.session_id] = FreshEntry("i2")
    /\ \E c \in Conns :
          /\ turn[c].state = "running" /\ turn[c].session # resp.session_id
          /\ active_sessions[turn[c].session] = FreshEntry(turn[c].item)

\* C27: a websocket message that does not parse or lacks a required field
\* is answered with one error text and nothing else: no session is created,
\* the engine is not run (no turn starts, no event is taken), and the handler
\* is back at its receive with the connection open.
C27_BadMessageRejected ==
    [][ \A c \in Conns :
          turn'[c].bad = turn[c].bad + 1 =>
             /\ Len(out'[c]) = 1 /\ out'[c][1].kind = "error"
             /\ sessions' = sessions /\ active_sessions' = active_sessions
             /\ turn'[c].state = "none" /\ gen'[c] = <<>> /\ nevents' = nevents
             /\ hpc'[c] = "recv" /\ client'[c] = "open" ]_vars
\* after a message answered with an error, a valid one on the same
\* connection opened its session and its turn ended with the marker
C27_Witness ==
    \E c \in Conns :
        /\ turn[c].bad = 1
        /\ turn[c].state = "ended"
        /\ <<DEFAULT_USER_ID, turn[c].session>> \in sessions
        /\ out[c] = <<Marker>>

(***************************************************************************)
(* Properties of the relay                                                  *)
(***************************************************************************)
InFlight(c) == hpc[c] = "turn"
\* the positions of out[c] holding a completion marker or an error text
Terminals(c) == { j \in 1..Len(out[c]) : out[c][j].kind \in {"marker", "error"} }
\* the texts of the increments delivered on c, in delivery order
RECURSIVE ChunkTexts(_)
ChunkTexts(q) ==
    IF q = <<>> THEN <<>>
    ELSE IF Head(q).kind = "chunk" THEN <<Head(q).text>> \o ChunkTexts(Tail(q))
    ELSE ChunkTexts(Tail(q))
\* the texts of the primary responder's partial chunks, in generation order
RECURSIVE Generated(_)
Generated(q) ==
    IF q = <<>> THEN <<>>
    ELSE IF Head(q).author = Primary /\ Head(q).kind = "partial" /\ Head(q).text # ""
    THEN <<Head(q).text>> \o Generated(Tail(q))
    ELSE Generated(Tail(q))

\* C3: at most one turn is in flight on a session at any time: no two
\* connections are inside stream_agent_response_websocket for the same
\* session id (a second message is queued or refused, so the tool calls of
\* two turns of one session cannot interleave).
C3_OneTurnPerSession ==
    \A c1, c2 \in Conns :
        (c1 # c2 /\ InFlight(c1) /\ InFlight(c2)) => turn[c1].session # turn[c2].session

\* C4: a websocket turn that has ended has delivered exactly one terminal
\* event, the completion marker or one error text, whatever events the
\* engine yielded and wherever it failed.
C4_OneTerminalEvent ==
    \A c \in Conns : turn[c].state = "ended" => Cardinality(Terminals(c)) = 1

\* C5: once a send of a turn has failed because the client is gone, no
\* further send is attempted on the connection and no exception leaves
\* websocket_chat.
C5_NoWriteAfterDisconnect ==
    \A c \in Conns : turn[c].state = "aborted" => late[c] = 0 /\ hpc[c] # "crashed"

\* C6: within a websocket turn the increments delivered to the client are
\* the primary responder's partial text chunks in generation order, none
\* dropped, duplicated or reordered (all of them while every send worked,
\* those before the failed send otherwise), and a terminal event is the last
\* thing delivered.
C6_IncrementsInOrder ==
    \A c \in Conns :
        /\ turn[c].state \in {"running", "ended"} =>
               ChunkTexts(out[c]) = Generated(gen[c])
        /\ turn[c].state = "aborted" =>
               LET p == ChunkTexts(out[c])
                   q == Generated(gen[c])
               IN Len(p) <= Len(q) /\ \A j \in 1..Len(p) : p[j] = q[j]
        /\ turn[c].state # "none" =>
               \A j \in Terminals(c) : j = Len(out[c])
\* two different chunks delivered, then the completion marker
C6_Witness ==
    \E c \in Conns :
        /\ turn[c].state = "ended"
        /\ out[c] = <<Chunk("a"), Chunk("b"), Marker>>

\* C23: an event whose author is not the primary responder, wherever it
\* comes in the turn's events and whether partial or final, has nothing sent
\* to the client: no text, no completion marker; the turn goes on as it was.
C23_NonPrimarySuppressed ==
    [][ \A c \in Conns :
          ( /\ Len(gen'[c]) = Len(gen[c]) + 1
            /\ gen'[c][Len(gen'[c])].author # Primary )
          => /\ out'[c] = out[c]
             /\ turn'[c] = turn[c]
             /\ hpc'[c] = hpc[c] ]_vars
\* a sub-agent's final response with text came first, then the primary
\* responder's chunk and final response: the client has the chunk and the
\* marker only
C23_Witness ==
    \E c \in Conns :
        /\ turn[c].state = "ended"
        /\ gen[c] = <<Event("sub_agent", "a", "final"), Event(Primary, "b", "partial"),
                      Event(Primary, "a", "final")>>
        /\ out[c] = <<Chunk("b"), Marker>>

\* C28: while a turn is in progress, the user id and session id given to
\* the engine are those of a session the session service holds, whatever
\* user id the client's message carried.
C28_TurnOnExistingSession ==
    \A c \in Conns : InFlight(c) => <<turn[c].user, turn[c].session>> \in sessions

\* C29: once the client of a connection is gone, whether the handler was
\* waiting for a message or running a turn, the handler eventually leaves
\* its loop and terminates: websocket_chat returns, or an exception leaves
\* it.
C29_HandlerTerminates ==
    \A c \in Conns : (client[c] = "gone") ~> (hpc[c] \in {"closed", "crashed"})
\* the client went away during a turn: a send of the turn failed, and the
\* handler has terminated
C29_Witness ==
    \E c \in Conns :
        /\ client[c] = "gone" /\ hpc[c] \in {"closed", "crashed"}
        /\ turn[c].state = "aborted" /\ gen[c] # <<>>

====
